---- MODULE Spec2Model ----
(***************************************************************************)
(* Model of the daily client process report generator:                     *)
(*   db_connection.py   categorize_processes                               *)
(*   log_retriever.py   find_log_file, _contains_uuid,                     *)
(*                      extract_process_logs, extract_error_summary        *)
(*   daily_report.py    load_skip_apikeys, DailyReportOrchestrator         *)
(*   email_report.py    generate_report                                    *)
(*                                                                         *)
(* A Python str is a sequence of one-character strings, so that lower(),   *)
(* the "in" substring test, split, strptime, strftime and glob are         *)
(* computed on the characters.  Python's None is the value None below.     *)
(***************************************************************************)
EXTENDS Integers, Sequences, FiniteSets, TLC

VARIABLES
    pc,              \* position of the program
    all_processes,   \* list of job dicts handed to categorize_processes
    categorized,     \* what categorize_processes returned
    logs_dir,        \* the files of LogRetriever.logs_dir
    process,         \* the failed job whose log is looked for
    log_file,        \* what find_log_file returned (NoFile is None)
    opened,          \* names of the files find_log_file opened, in order
    log_lines,       \* the lines handed to extract_error_summary
    max_lines,       \* its max_lines argument
    summary,         \* the text it returned
    db_rows,         \* the rows the query of the run returned
    logs_dir_ok,     \* LOGS_DIR is set and the path exists
    skip_apikeys,    \* DailyReportOrchestrator.skip_apikeys
    db,              \* the connection: "none", "open" or "closed"
    log_retriever,   \* whether self.log_retriever is a LogRetriever
    failed_logs,     \* what process_failed_processes returned
    finished_data,   \* what process_finished_processes returned
    lookups,         \* the storage lookups made, in order
    report,          \* what generate_report returned
    sent,            \* the mail payloads posted, in order
    error,           \* the exception run() is raising ("none": none)
    faults,          \* the collaborators that failed with an exception so far
    notification_email, \* DailyReportOrchestrator.notification_email
    accounts,        \* the accounts of the token cache of the mail client
    user_email,      \* EmailReportGenerator.user_email
    token            \* how the mail client got its token ("none": not yet)

catVars == <<all_processes, categorized>>

findVars == <<logs_dir, process, log_file, opened>>

sumVars == <<log_lines, max_lines, summary>>

mailVars == <<notification_email, accounts, user_email, token>>

runVars ==
    <<db_rows, logs_dir_ok, skip_apikeys, db, log_retriever, failed_logs,
      finished_data, lookups, report, sent, error, faults>>

vars ==
    <<pc, all_processes, categorized, logs_dir, process, log_file, opened,
      log_lines, max_lines, summary, db_rows, logs_dir_ok, skip_apikeys, db,
      log_retriever, failed_logs, finished_data, lookups, report, sent, error,
      faults, notification_email, accounts, user_email, token>>

-----------------------------------------------------------------------------
(* Bounds of the model *)

MaxJobs == 3

MaxFiles == 3

MaxLogLines == 3

MaxLinesArg == 3

MaxRows == 3

-----------------------------------------------------------------------------
(* Python strings *)

None == <<"None">>

Digits == <<"0","1","2","3","4","5","6","7","8","9">>

\* str(n) for n >= 0
RECURSIVE IntToStr(_)
IntToStr(n) ==
    IF n < 10 THEN <<Digits[n + 1]>>
    ELSE IntToStr(n \div 10) \o <<Digits[(n % 10) + 1]>>

UpperCase ==
    <<"A","B","C","D","E","F","G","H","I","J","K","L","M",
      "N","O","P","Q","R","S","T","U","V","W","X","Y","Z">>

LowerCase ==
    <<"a","b","c","d","e","f","g","h","i","j","k","l","m",
      "n","o","p","q","r","s","t","u","v","w","x","y","z">>

\* str.lower() on one character
LowerChar(c) ==
    IF \E i \in 1..26 : UpperCase[i] = c
    THEN LowerCase[CHOOSE i \in 1..26 : UpperCase[i] = c]
    ELSE c

\* str.lower()
lower(s) == [i \in 1..Len(s) |-> LowerChar(s[i])]

\* sub in s
Contains(sub, s) ==
    \E k \in 0..(Len(s) - Len(sub)) :
        \A j \in 1..Len(sub) : s[k + j] = sub[j]

-----------------------------------------------------------------------------
(* db_connection.py: categorize_processes *)

BucketNames == {"finished", "failed", "running", "other"}

EmptyBuckets ==
    [raised |-> FALSE, finished |-> <<>>, failed |-> <<>>,
     running |-> <<>>, other |-> <<>>]

AttributeError == [EmptyBuckets EXCEPT !.raised = TRUE]

\* a slip: the failed patterns tested before the finished ones
BucketOfStatus_FailedFirst(status) ==
    IF Contains(<<"f","a","i","l">>, status)
       \/ Contains(<<"e","r","r","o","r">>, status)
    THEN "failed"
    ELSE IF Contains(<<"f","i","n","i","s","h">>, status)
            \/ Contains(<<"c","o","m","p","l","e","t","e">>, status)
    THEN "finished"
    ELSE IF Contains(<<"r","u","n","n","i","n","g">>, status)
            \/ Contains(<<"p","r","o","c","e","s","s","i","n","g">>, status)
    THEN "running"
    ELSE "other"

\* the if / elif chain of the loop body, on the lowered status
BucketOfStatus(status) ==
    IF Contains(<<"f","i","n","i","s","h">>, status)
       \/ Contains(<<"c","o","m","p","l","e","t","e">>, status)
    THEN "finished"
    ELSE IF Contains(<<"f","a","i","l">>, status)
            \/ Contains(<<"e","r","r","o","r">>, status)
    THEN "failed"
    ELSE IF Contains(<<"r","u","n","n","i","n","g">>, status)
            \/ Contains(<<"p","r","o","c","e","s","s","i","n","g">>, status)
    THEN "running"
    ELSE "other"

\* a slip: independent ifs in place of the elif chain
CategorizeOne_IndependentIfs(acc, proc) ==
    IF acc.raised THEN acc
    ELSE IF proc.status_name = None THEN AttributeError
    ELSE LET st == lower(proc.status_name)
             fin == Contains(<<"f","i","n","i","s","h">>, st)
                    \/ Contains(<<"c","o","m","p","l","e","t","e">>, st)
             fl  == Contains(<<"f","a","i","l">>, st)
                    \/ Contains(<<"e","r","r","o","r">>, st)
             run == Contains(<<"r","u","n","n","i","n","g">>, st)
                    \/ Contains(<<"p","r","o","c","e","s","s","i","n","g">>, st)
         IN  [acc EXCEPT
                !.finished = IF fin THEN Append(@, proc) ELSE @,
                !.failed   = IF fl THEN Append(@, proc) ELSE @,
                !.running  = IF run THEN Append(@, proc) ELSE @,
                !.other    = IF ~fin /\ ~fl /\ ~run THEN Append(@, proc) ELSE @]

\* one iteration of the loop: process['status_name'].lower() raises on None
CategorizeOne(acc, proc) ==
    IF acc.raised THEN acc
    ELSE IF proc.status_name = None THEN AttributeError
    ELSE LET b == BucketOfStatus(lower(proc.status_name))
         IN  [acc EXCEPT ![b] = Append(@, proc)]

RECURSIVE CategorizeFrom(_, _, _)
CategorizeFrom(processes, i, acc) ==
    IF i > Len(processes) THEN acc
    ELSE CategorizeFrom(processes, i + 1, CategorizeOne(acc, processes[i]))

categorize_processes(processes) == CategorizeFrom(processes, 1, EmptyBuckets)

-----------------------------------------------------------------------------
(* More of Python's str, as log_retriever.py uses it *)

\* the characters of the model in code-point order
AsciiOrder ==
    <<"\n"," ","(",")","-",".","0","1","2","3","4","5","6","7","8","9",":","=">>
    \o UpperCase \o <<"_">> \o LowerCase

Ord(c) == CHOOSE i \in 1..Len(AsciiOrder) : AsciiOrder[i] = c

\* a < b on str
StrLess(a, b) ==
    \E k \in 1..Len(b) :
        /\ \A j \in 1..(k - 1) : j <= Len(a) /\ a[j] = b[j]
        /\ \/ k = Len(a) + 1
           \/ k <= Len(a) /\ Ord(a[k]) < Ord(b[k])

StartsWith(s, prefix) ==
    Len(prefix) <= Len(s) /\ SubSeq(s, 1, Len(prefix)) = prefix

EndsWith(s, suffix) ==
    Len(suffix) <= Len(s) /\ SubSeq(s, Len(s) - Len(suffix) + 1, Len(s)) = suffix

IsDigit(c) == \E i \in 1..10 : Digits[i] = c

DigitValue(c) == (CHOOSE i \in 1..10 : Digits[i] = c) - 1

AllDigits(s) == \A i \in 1..Len(s) : IsDigit(s[i])

\* int(s) for a string of digits
RECURSIVE StrToInt(_)
StrToInt(s) ==
    IF Len(s) = 0 THEN 0
    ELSE 10 * StrToInt(SubSeq(s, 1, Len(s) - 1)) + DigitValue(s[Len(s)])

\* str(n) padded with zeros to the width (the %Y, %m, %d of strftime)
RECURSIVE ZeroPad(_, _)
ZeroPad(s, width) == IF Len(s) >= width THEN s ELSE ZeroPad(<<"0">> \o s, width)

\* s.split(sep) for a one-character sep
RECURSIVE Split(_, _)
Split(s, sep) ==
    IF \E i \in 1..Len(s) : s[i] = sep
    THEN LET i == CHOOSE i \in 1..Len(s) : s[i] = sep /\ \A j \in 1..(i - 1) : s[j] # sep
         IN  <<SubSeq(s, 1, i - 1)>> \o Split(SubSeq(s, i + 1, Len(s)), sep)
    ELSE <<s>>

\* "".join(lines)
RECURSIVE Join(_)
Join(lines) == IF Len(lines) = 0 THEN <<>> ELSE Head(lines) \o Join(Tail(lines))

-----------------------------------------------------------------------------
(* pathlib and datetime, as log_retriever.py uses them *)

\* PurePath.suffix: from the last dot, unless the name starts or ends with it
Suffix(name) ==
    IF \E i \in 2..(Len(name) - 1) : name[i] = "."
    THEN LET i == CHOOSE i \in 2..(Len(name) - 1) :
                      name[i] = "." /\ \A j \in (i + 1)..Len(name) : name[j] # "."
         IN  IF name[Len(name)] = "." THEN <<>> ELSE SubSeq(name, i, Len(name))
    ELSE <<>>

\* PurePath.stem: the name without its suffix
Stem(name) == SubSeq(name, 1, Len(name) - Len(Suffix(name)))

IsLeap(y) == (y % 4 = 0 /\ y % 100 # 0) \/ y % 400 = 0

DaysInMonth(y, m) ==
    IF m = 2 THEN (IF IsLeap(y) THEN 29 ELSE 28)
    ELSE IF m \in {4, 6, 9, 11} THEN 30 ELSE 31

\* days from 1970-01-01 to the date (proleptic Gregorian, as datetime counts)
DaysFromCivil(y, m, d) ==
    LET yy  == IF m <= 2 THEN y - 1 ELSE y
        era == yy \div 400
        yoe == yy - era * 400
        mp  == IF m > 2 THEN m - 3 ELSE m + 9
        doy == (153 * mp + 2) \div 5 + d - 1
        doe == yoe * 365 + yoe \div 4 - yoe \div 100 + doy
    IN  era * 146097 + doe - 719468

\* seconds from the epoch to the datetime
Timestamp(t) ==
    DaysFromCivil(t.Y, t.M, t.D) * 86400 + t.h * 3600 + t.m * 60 + t.s

\* (a - b).total_seconds()
TotalSeconds(a, b) == Timestamp(a) - Timestamp(b)

\* t.strftime('%Y-%m-%d')
StrftimeDate(t) ==
    ZeroPad(IntToStr(t.Y), 4) \o <<"-">> \o ZeroPad(IntToStr(t.M), 2)
        \o <<"-">> \o ZeroPad(IntToStr(t.D), 2)

ValueError == [ok |-> FALSE, Y |-> 0, M |-> 0, D |-> 0, h |-> 0, m |-> 0, s |-> 0]

\* one numeric directive of strptime: 1 to 2 digits (4 for %Y) within its range
FieldOk(f, lo, hi) ==
    Len(f) \in 1..2 /\ AllDigits(f) /\ StrToInt(f) >= lo /\ StrToInt(f) <= hi

\* datetime.strptime(ts, '%Y-%m-%dT%H-%M-%S'): ValueError unless the whole of
\* ts has this form and names a date and time that exist
StrptimeLogStamp(ts) ==
    LET halves == Split(ts, "T")
    IN  IF Len(halves) # 2 THEN ValueError
        ELSE LET d == Split(halves[1], "-")
                 t == Split(halves[2], "-")
             IN  IF Len(d) # 3 \/ Len(t) # 3 THEN ValueError
                 ELSE IF ~(/\ Len(d[1]) = 4 /\ AllDigits(d[1]) /\ StrToInt(d[1]) >= 1
                           /\ FieldOk(d[2], 1, 12)
                           /\ FieldOk(d[3], 1, 31)
                           /\ FieldOk(t[1], 0, 23)
                           /\ FieldOk(t[2], 0, 59)
                           /\ FieldOk(t[3], 0, 59))
                 THEN ValueError
                 ELSE IF StrToInt(d[3]) > DaysInMonth(StrToInt(d[1]), StrToInt(d[2]))
                 THEN ValueError
                 ELSE [ok |-> TRUE, Y |-> StrToInt(d[1]), M |-> StrToInt(d[2]),
                       D |-> StrToInt(d[3]), h |-> StrToInt(t[1]),
                       m |-> StrToInt(t[2]), s |-> StrToInt(t[3])]

-----------------------------------------------------------------------------
(* log_retriever.py: find_log_file and _contains_uuid *)

\* A log file: its name, whether its bytes are gzip data, the text lines a
\* reader of the right kind gets from it, and whether reading it raises once
\* these lines are read (with no lines: the file cannot be opened or read).
NoFile == [name |-> None, gz |-> FALSE, lines |-> <<>>, fails |-> FALSE]

LogSuffix == <<"_","p","e","r","c","e","p","t","i","o","n","_","a","p","i",".","l","o","g">>

\* Path.glob(f"{date_str}T*_perception_api.log") on one name
GlobMatches(name, date_str) ==
    /\ StartsWith(name, date_str \o <<"T">>)
    /\ EndsWith(name, LogSuffix)
    /\ Len(name) >= Len(date_str) + 1 + Len(LogSuffix)

\* the files of the directory the pattern selects
matching_files(dir, date_str) == { f \in dir : GlobMatches(f.name, date_str) }

\* a slip: the listing in the reverse of the sorted order
RECURSIVE sorted_Descending(_)
sorted_Descending(files) ==
    IF files = {} THEN <<>>
    ELSE LET last == CHOOSE f \in files : \A g \in files \ {f} : StrLess(g.name, f.name)
         IN  <<last>> \o sorted_Descending(files \ {last})

\* sorted(matching_files): ascending by path, here by name
RECURSIVE sorted(_)
sorted(files) ==
    IF files = {} THEN <<>>
    ELSE LET first == CHOOSE f \in files : \A g \in files \ {f} : StrLess(f.name, g.name)
         IN  <<first>> \o sorted(files \ {first})

\* what iterating over the opened file yields: gzip.open for a .gz suffix,
\* open otherwise; the wrong reader for the bytes raises at the first read
ReadLines(file) ==
    IF (Suffix(file.name) = <<".","g","z">>) # file.gz
    THEN [lines |-> <<>>, raised |-> TRUE]
    ELSE [lines |-> file.lines, raised |-> file.fails]

\* a slip: the handler of the read error answers True
contains_uuid_ErrorIsMatch(file, process_uuid) ==
    \/ ReadLines(file).raised
    \/ \E i \in 1..Len(ReadLines(file).lines) :
          Contains(process_uuid, ReadLines(file).lines[i])

\* _contains_uuid: True at the first line holding the uuid; False at the end
\* of the file or when reading raises
contains_uuid(file, process_uuid) ==
    \E i \in 1..Len(ReadLines(file).lines) :
        Contains(process_uuid, ReadLines(file).lines[i])

MaxSecondsLogAfterStart == 3600

MaxSecondsLogBeforeStart == 86400

\* a slip: the two limits of the window exchanged
InTimeWindow_Swapped(time_diff) ==
    ~(time_diff < -MaxSecondsLogBeforeStart \/ time_diff > MaxSecondsLogAfterStart)

\* the window test on time_diff = start_time - log_time: False is "continue"
InTimeWindow(time_diff) ==
    ~(time_diff < -MaxSecondsLogAfterStart \/ time_diff > MaxSecondsLogBeforeStart)

\* the timestamp the try block parses out of the file name
log_time(file) == StrptimeLogStamp(Split(Stem(file.name), "_")[1])

\* a slip: a file whose timestamp does not parse is skipped
PassesTimeCheck_FailClosed(file, start_time) ==
    /\ log_time(file).ok
    /\ InTimeWindow(TotalSeconds(start_time, log_time(file)))

\* the try / except around the window test: a file whose timestamp does not
\* parse is still checked
PassesTimeCheck(file, start_time) ==
    IF log_time(file).ok
    THEN InTimeWindow(TotalSeconds(start_time, log_time(file)))
    ELSE TRUE

\* a slip: the match remembered and the loop run to its end
RECURSIVE FindFrom_NoBreak(_, _, _, _, _)
FindFrom_NoBreak(files, i, process_uuid, start_time, seen) ==
    IF i > Len(files) THEN [log_file |-> NoFile, opened |-> seen]
    ELSE IF ~PassesTimeCheck(files[i], start_time)
    THEN FindFrom_NoBreak(files, i + 1, process_uuid, start_time, seen)
    ELSE LET rest == FindFrom_NoBreak(files, i + 1, process_uuid, start_time,
                                      Append(seen, files[i].name))
         IN  IF contains_uuid(files[i], process_uuid)
             THEN [log_file |-> files[i], opened |-> rest.opened]
             ELSE rest

\* the loop over the sorted files, from position i on
RECURSIVE FindFrom(_, _, _, _, _)
FindFrom(files, i, process_uuid, start_time, seen) ==
    IF i > Len(files) THEN [log_file |-> NoFile, opened |-> seen]
    ELSE IF ~PassesTimeCheck(files[i], start_time)
    THEN FindFrom(files, i + 1, process_uuid, start_time, seen)
    ELSE IF contains_uuid(files[i], process_uuid)
    THEN [log_file |-> files[i], opened |-> Append(seen, files[i].name)]
    ELSE FindFrom(files, i + 1, process_uuid, start_time, Append(seen, files[i].name))

find_log_file(dir, process_uuid, start_time) ==
    LET files == matching_files(dir, StrftimeDate(start_time))
    IN  IF files = {} THEN [log_file |-> NoFile, opened |-> <<>>]
        ELSE FindFrom(sorted(files), 1, process_uuid, start_time, <<>>)

-----------------------------------------------------------------------------
(* log_retriever.py: extract_error_summary *)

NoLogData == <<"N","o"," ","l","o","g"," ","d","a","t","a"," ","a","v","a","i","l","a","b","l","e">>

important_patterns ==
    << <<"E","R","R","O","R">>,
       <<"E","X","C","E","P","T","I","O","N">>,
       <<"T","R","A","C","E","B","A","C","K">>,
       <<"C","R","I","T","I","C","A","L">>,
       <<"F","A","T","A","L">>,
       <<"F","a","i","l","e","d">>,
       <<"E","x","c","e","p","t","i","o","n",":">> >>

\* re.search(pattern, line, re.IGNORECASE) for a pattern of plain characters
SearchIgnoreCase(pattern, line) == Contains(lower(pattern), lower(line))

\* any(re.search(pattern, line, re.IGNORECASE) for pattern in important_patterns)
IsImportant(line) ==
    \E k \in 1..Len(important_patterns) : SearchIgnoreCase(important_patterns[k], line)

\* a slip: the first n items, lst[:n]
SliceLast_First(lst, n) == SubSeq(lst, 1, IF n < Len(lst) THEN n ELSE Len(lst))

\* lst[-n:]: the start index -n counts from the end when negative, and from
\* the front when it is 0 or more
SliceLast(lst, n) ==
    LET k     == -n
        start == IF k < 0
                 THEN (IF Len(lst) + k > 0 THEN Len(lst) + k ELSE 0)
                 ELSE (IF k < Len(lst) THEN k ELSE Len(lst))
    IN  SubSeq(lst, start + 1, Len(lst))

ErrorHeader(n) ==
    <<"=","=","="," ","E","r","r","o","r"," ","S","u","m","m","a","r","y"," ","(">>
    \o IntToStr(n)
    \o <<" ","e","r","r","o","r"," ","l","i","n","e","s"," ","f","o","u","n","d",")",
         " ","=","=","=","\n","\n">>

LastHeader(n) ==
    <<"=","=","="," ","L","a","s","t"," ">> \o IntToStr(n)
    \o <<" ","l","o","g"," ","l","i","n","e","s"," ","=","=","=","\n","\n">>

\* a slip: the header counts the lines shown
extract_error_summary_CountShown(lines, n) ==
    IF Len(lines) = 0 THEN NoLogData
    ELSE LET important_lines == SelectSeq(lines, IsImportant)
         IN  IF Len(important_lines) > 0
             THEN ErrorHeader(Len(SliceLast(important_lines, n)))
                      \o Join(SliceLast(important_lines, n))
             ELSE LastHeader(Len(SliceLast(lines, n))) \o Join(SliceLast(lines, n))

\* a slip: no test for the empty list
extract_error_summary_NoEmptyTest(lines, n) ==
    LET important_lines == SelectSeq(lines, IsImportant)
    IN  IF Len(important_lines) > 0
        THEN ErrorHeader(Len(important_lines)) \o Join(SliceLast(important_lines, n))
        ELSE LastHeader(Len(SliceLast(lines, n))) \o Join(SliceLast(lines, n))

extract_error_summary(lines, n) ==
    IF Len(lines) = 0 THEN NoLogData
    ELSE LET important_lines == SelectSeq(lines, IsImportant)
         IN  IF Len(important_lines) > 0
             THEN ErrorHeader(Len(important_lines)) \o Join(SliceLast(important_lines, n))
             ELSE LastHeader(Len(SliceLast(lines, n))) \o Join(SliceLast(lines, n))

-----------------------------------------------------------------------------
(* daily_report.py: load_skip_apikeys and the filter of fetch_processes *)

Whitespace == {" ", "\n", "\t", "\r"}

\* line.strip()
RECURSIVE Strip(_)
Strip(s) ==
    IF Len(s) = 0 THEN s
    ELSE IF s[1] \in Whitespace THEN Strip(Tail(s))
    ELSE IF s[Len(s)] \in Whitespace THEN Strip(SubSeq(s, 1, Len(s) - 1))
    ELSE s

\* the skip file: whether it exists, and its lines
NoSkipFile == [exists |-> FALSE, lines |-> <<>>]

load_skip_apikeys(skip_file) ==
    IF ~skip_file.exists THEN {}
    ELSE { Strip(skip_file.lines[i]) :
             i \in { j \in 1..Len(skip_file.lines) :
                       /\ Len(Strip(skip_file.lines[j])) > 0
                       /\ ~StartsWith(Strip(skip_file.lines[j]), <<"#">>) } }

\* a slip: the rows are passed on as they came
FilterSkipped_KeepAll(rows, skip) == rows

\* fetch_processes: if self.skip_apikeys, keep the rows whose api_key is not in it
FilterSkipped(rows, skip) ==
    IF skip # {}
    THEN LET Keep(p) == p.api_key \notin skip IN SelectSeq(rows, Keep)
    ELSE rows

-----------------------------------------------------------------------------
(* log_retriever.py: extract_process_logs, save_process_log,                 *)
(* get_failed_process_logs; daily_report.py: process_failed_processes        *)

DefaultMaxLines == 50

\* extract_process_logs: the lines holding the uuid, or [] when the file is
\* gone since find_log_file read it (rereadable is false) or reading raises
extract_process_logs(file, process_uuid, rereadable) ==
    IF ~rereadable \/ ReadLines(file).raised THEN <<>>
    ELSE LET Holds(line) == Contains(process_uuid, line)
         IN  SelectSeq(ReadLines(file).lines, Holds)

\* save_process_log: the path output_dir / f"{process_uuid}_{timestamp}.log"
SavedPath(process_uuid) ==
    <<"failed_logs/">> \o process_uuid \o <<"_">> \o <<"%Y%m%d_%H%M%S">>
        \o <<".","l","o","g">>

LogFileNotFound ==
    <<"L","o","g"," ","f","i","l","e"," ","n","o","t"," ","f","o","u","n","d">>

LogRetrievalNotConfigured ==
    <<"L","o","g"," ","r","e","t","r","i","e","v","a","l"," ","n","o","t"," ",
      "c","o","n","f","i","g","u","r","e","d">>

\* the result dict of one failed job; the not-found dicts have no full_log
\* and no line_count key (None and -1 here)
NotFoundResult(text) ==
    [found |-> FALSE, log_file |-> None, summary |-> text, saved_path |-> None,
     full_log |-> None, line_count |-> -1]

FoundResult(file, lines, process_uuid) ==
    [found |-> TRUE, log_file |-> file.name,
     summary |-> extract_error_summary(lines, DefaultMaxLines),
     saved_path |-> SavedPath(process_uuid),
     full_log |-> Join(lines), line_count |-> Len(lines)]

\* results[key] = value on a dict
DictPut(dict, key, value) ==
    [k \in (DOMAIN dict) \cup {key} |-> IF k = key THEN value ELSE dict[k]]

\* the body of the loop of get_failed_process_logs for one job; lost holds
\* the ids of the jobs whose log file cannot be read a second time
FailedLogOf(dir, proc, lost) ==
    LET file == find_log_file(dir, proc.process_uuid, proc.start_time).log_file
    IN  IF file = NoFile THEN NotFoundResult(LogFileNotFound)
        ELSE FoundResult(file,
                         extract_process_logs(file, proc.process_uuid,
                                              proc.process_uuid \notin lost),
                         proc.process_uuid)

RECURSIVE GetFailedFrom(_, _, _, _, _)
GetFailedFrom(dir, failed, i, results, lost) ==
    IF i > Len(failed) THEN results
    ELSE GetFailedFrom(dir, failed, i + 1,
                       DictPut(results, failed[i].process_uuid,
                               FailedLogOf(dir, failed[i], lost)),
                       lost)

get_failed_process_logs(dir, failed, lost) == GetFailedFrom(dir, failed, 1, <<>>, lost)

\* the ids of the failed jobs for which find_log_file returns a file
LogFound(retriever, dir, failed) ==
    IF retriever
    THEN { failed[i].process_uuid : i \in
             { j \in 1..Len(failed) :
                 find_log_file(dir, failed[j].process_uuid, failed[j].start_time).log_file
                     # NoFile } }
    ELSE {}

\* save_process_log has no handler of its own and none surrounds its call:
\* when the output directory cannot be written, the OSError of mkdir, open
\* or write leaves get_failed_process_logs at the first job whose log was found
SaveRaises(retriever, dir, failed, writable) ==
    /\ retriever
    /\ ~writable
    /\ \E i \in 1..Len(failed) :
          find_log_file(dir, failed[i].process_uuid, failed[i].start_time).log_file # NoFile

\* a slip: no placeholder entries when no retriever is configured
process_failed_processes_NoPlaceholders(retriever, dir, failed, lost) ==
    IF retriever /\ Len(failed) > 0 THEN get_failed_process_logs(dir, failed, lost) ELSE <<>>

\* process_failed_processes: {} without failed jobs, the retriever's results
\* when one is configured, a placeholder per job otherwise
process_failed_processes(retriever, dir, failed, lost) ==
    IF Len(failed) = 0 THEN <<>>
    ELSE IF retriever THEN get_failed_process_logs(dir, failed, lost)
    ELSE [u \in { failed[i].process_uuid : i \in 1..Len(failed) } |->
             NotFoundResult(LogRetrievalNotConfigured)]

-----------------------------------------------------------------------------
(* onedrive_manager.py: find_process_video; daily_report.py:                 *)
(* process_finished_processes                                                *)

video_extensions ==
    << <<".","m","p","4">>, <<".","a","v","i">>, <<".","m","o","v">>,
       <<".","m","k","v">>, <<".","w","e","b","m">> >>

IsVideoName(name) ==
    \E k \in 1..Len(video_extensions) : EndsWith(lower(name), video_extensions[k])

\* a slip: the first file of the folder, whatever its extension
find_process_video_AnyFile(response) ==
    IF response.status # 200 THEN None
    ELSE IF \E i \in 1..Len(response.items) : response.items[i].file
    THEN response.items[CHOOSE i \in 1..Len(response.items) :
                           /\ response.items[i].file
                           /\ \A j \in 1..(i - 1) : ~response.items[j].file].webUrl
    ELSE None

\* find_process_video on the response to the folder listing: None on an HTTP
\* error status, else the webUrl of the first file with a video extension
find_process_video(response) ==
    IF response.status # 200 THEN None
    ELSE IF \E i \in 1..Len(response.items) :
               response.items[i].file /\ IsVideoName(response.items[i].name)
    THEN response.items[CHOOSE i \in 1..Len(response.items) :
                           /\ response.items[i].file /\ IsVideoName(response.items[i].name)
                           /\ \A j \in 1..(i - 1) :
                                 ~(response.items[j].file /\ IsVideoName(response.items[j].name))
                       ].webUrl
    ELSE None

\* the entry of finished_data for one job: "if not api_key" skips the lookup
FinishedEntry(proc, response) ==
    IF proc.api_key = None \/ Len(proc.api_key) = 0
    THEN [client_name |-> proc.name, api_key |-> None, video_link |-> None,
          process |-> proc]
    ELSE [client_name |-> proc.name, api_key |-> proc.api_key,
          video_link |-> find_process_video(response), process |-> proc]

\* a slip: "if api_key is None" instead of "if not api_key"
NeedsLookup_NoneOnly(proc) == proc.api_key # None

\* "if not api_key" is false: the job is looked up
NeedsLookup(proc) == ~(proc.api_key = None \/ Len(proc.api_key) = 0)

\* process_finished_processes, with responses[i] the listing the storage
\* gives for finished[i]
RECURSIVE FinishedFrom(_, _, _, _)
FinishedFrom(finished, responses, i, data) ==
    IF i > Len(finished) THEN data
    ELSE FinishedFrom(finished, responses, i + 1,
                      DictPut(data, finished[i].process_uuid,
                              FinishedEntry(finished[i], responses[i])))

process_finished_processes(finished, responses) == FinishedFrom(finished, responses, 1, <<>>)

\* requests.get raised instead of answering (ConnectionError, Timeout):
\* find_process_video handles HTTPError only, so the exception leaves it
RequestFailed == [status |-> -1, items |-> <<>>]

\* finished[i] is reached by the loop and its folder is requested
Requested(finished, responses, i) ==
    /\ NeedsLookup(finished[i])
    /\ \A j \in 1..(i - 1) : ~(NeedsLookup(finished[j]) /\ responses[j] = RequestFailed)

\* a slip: only the 404 status handled, any other error status re-raised
LookupRaises_Only404Handled(finished, responses) ==
    \E i \in 1..Len(finished) :
        NeedsLookup(finished[i]) /\ responses[i].status \notin {200, 404}

\* the loop of process_finished_processes is left by an exception
LookupRaises(finished, responses) ==
    \E i \in 1..Len(finished) : NeedsLookup(finished[i]) /\ responses[i] = RequestFailed

\* the lookups process_finished_processes makes, in order
LookupsOf(finished, responses) ==
    LET Looked(i) == Requested(finished, responses, i)
        idx == SelectSeq([i \in 1..Len(finished) |-> i], Looked)
    IN  [k \in 1..Len(idx) |->
            [api_key |-> finished[idx[k]].api_key,
             process_uuid |-> finished[idx[k]].process_uuid,
             response |-> responses[idx[k]]]]

-----------------------------------------------------------------------------
(* email_report.py: generate_report.  The fixed text between two             *)
(* interpolated values of a template is one element of the string; the       *)
(* values are spelled out.  Of a job the name, uuid, status and start time   *)
(* are rendered.                                                             *)

\* str(n) padded to two digits
Two(n) == ZeroPad(IntToStr(n), 2)

\* str(datetime)
StrDatetime(t) ==
    StrftimeDate(t) \o <<" ">> \o Two(t.h) \o <<":">> \o Two(t.m) \o <<":">> \o Two(t.s)

\* s.replace('\n', '<br>')
RECURSIVE ReplaceNewlines(_)
ReplaceNewlines(s) ==
    IF Len(s) = 0 THEN <<>>
    ELSE (IF s[1] = "\n" THEN <<"<","b","r",">">> ELSE <<s[1]>>) \o ReplaceNewlines(Tail(s))

\* dict.get(key, {})
DictHas(dict, key) == key \in DOMAIN dict

\* a slip: the three buckets that have a column, without "other"
TotalProcesses_WithoutOther(cat) ==
    Len(cat.finished) + Len(cat.failed) + Len(cat.running)

\* sum(len(procs) for procs in categorized.values())
TotalProcesses(cat) ==
    Len(cat.finished) + Len(cat.failed) + Len(cat.running) + Len(cat.other)

HtmlSummary(cat) ==
    <<"<h2>Summary</h2><th>Total Processes</th><th>Finished</th><th>Failed</th><th>Running</th><td>">>
    \o IntToStr(TotalProcesses(cat))
    \o <<"</td><td badge-finished>">> \o IntToStr(Len(cat.finished))
    \o <<"</td><td badge-failed>">> \o IntToStr(Len(cat.failed))
    \o <<"</td><td badge-running>">> \o IntToStr(Len(cat.running))
    \o <<"</td>">>

HtmlCardHead(proc) ==
    <<"<h3>">> \o proc.name
    \o <<"</h3>Process UUID:">> \o proc.process_uuid
    \o <<"Status:">> \o proc.status_name
    \o <<"Start Time:">> \o StrDatetime(proc.start_time)

HtmlFailedCard(proc, logs) ==
    <<"<div failed>">> \o HtmlCardHead(proc)
    \o (IF DictHas(logs, proc.process_uuid) /\ logs[proc.process_uuid].found
        THEN <<"Error Summary:">> \o ReplaceNewlines(logs[proc.process_uuid].summary)
             \o <<"Full log available at:">> \o logs[proc.process_uuid].saved_path
        ELSE <<"Log file not found">>)
    \o <<"</div>">>

HtmlFinishedCard(proc, data) ==
    <<"<div finished>">> \o HtmlCardHead(proc)
    \o (IF DictHas(data, proc.process_uuid) /\ data[proc.process_uuid].video_link # None
        THEN <<"Video:<a href=">> \o data[proc.process_uuid].video_link
             \o <<">View in OneDrive</a>">>
        ELSE <<"Video:Not found in OneDrive">>)
    \o <<"</div>">>

HtmlRunningCard(proc) == <<"<div running>">> \o HtmlCardHead(proc) \o <<"</div>">>

generate_html_report(cat, logs, data) ==
    HtmlSummary(cat)
    \o (IF Len(cat.failed) > 0
        THEN <<"<h2>Failed Processes</h2>">>
             \o Join([i \in 1..Len(cat.failed) |-> HtmlFailedCard(cat.failed[i], logs)])
        ELSE <<>>)
    \o (IF Len(cat.finished) > 0
        THEN <<"<h2>Finished Processes</h2>">>
             \o Join([i \in 1..Len(cat.finished) |->
                         HtmlFinishedCard(cat.finished[i], data)])
        ELSE <<>>)
    \o (IF Len(cat.running) > 0
        THEN <<"<h2>Running Processes</h2>">>
             \o Join([i \in 1..Len(cat.running) |-> HtmlRunningCard(cat.running[i])])
        ELSE <<>>)
    \o <<"</html>">>

TextFailed(proc, logs) ==
    <<"\nClient: ">> \o proc.name \o <<"\n">>
    \o <<"UUID: ">> \o proc.process_uuid \o <<"\n">>
    \o <<"Status: ">> \o proc.status_name \o <<"\n">>
    \o <<"Start: ">> \o StrDatetime(proc.start_time) \o <<"\n">>
    \o (IF DictHas(logs, proc.process_uuid) /\ logs[proc.process_uuid].found
        THEN <<"Log: ">> \o logs[proc.process_uuid].saved_path \o <<"\n">>
        ELSE <<>>)

TextFinished(proc, data) ==
    <<"\nClient: ">> \o proc.name \o <<"\n">>
    \o <<"UUID: ">> \o proc.process_uuid \o <<"\n">>
    \o (IF DictHas(data, proc.process_uuid) /\ data[proc.process_uuid].video_link # None
        THEN <<"Video: ">> \o data[proc.process_uuid].video_link \o <<"\n">>
        ELSE <<>>)

generate_text_report(cat, logs, data) ==
    <<"DAILY CLIENT PROCESS REPORT", "\n">>
    \o <<"Total Processes: ">> \o IntToStr(TotalProcesses(cat)) \o <<"\n">>
    \o <<"  Finished: ">> \o IntToStr(Len(cat.finished)) \o <<"\n">>
    \o <<"  Failed: ">> \o IntToStr(Len(cat.failed)) \o <<"\n">>
    \o <<"  Running: ">> \o IntToStr(Len(cat.running)) \o <<"\n">>
    \o (IF Len(cat.failed) > 0
        THEN <<"FAILED PROCESSES", "\n">>
             \o Join([i \in 1..Len(cat.failed) |-> TextFailed(cat.failed[i], logs)])
        ELSE <<>>)
    \o (IF Len(cat.finished) > 0
        THEN <<"FINISHED PROCESSES", "\n">>
             \o Join([i \in 1..Len(cat.finished) |-> TextFinished(cat.finished[i], data)])
        ELSE <<>>)

NoReport == [subject |-> None, html_body |-> None, text_body |-> None]

generate_report(cat, logs, data, now) ==
    [subject |-> <<"Daily Client Process Report - ">> \o StrftimeDate(now),
     html_body |-> generate_html_report(cat, logs, data),
     text_body |-> generate_text_report(cat, logs, data)]

-----------------------------------------------------------------------------
(* Job records (rows of get_last_24h_processes) *)

UuidOf(i) == <<"u">> \o IntToStr(i)

ClientA == <<"A","c","m","e">>

KeyA == <<"k","A">>

\* a datetime
Noon == [Y |-> 2026, M |-> 2, D |-> 6, h |-> 12, m |-> 0, s |-> 0]

NoProcess ==
    [process_uuid |-> None, name |-> None, api_key |-> None,
     status_name |-> None, start_time |-> Noon]

Job(i, status, api_key, start) ==
    [process_uuid |-> UuidOf(i), name |-> ClientA, api_key |-> api_key,
     status_name |-> status, start_time |-> start]

StatusPool ==
    { <<"F","i","n","i","s","h","e","d","-","O","K">>,
      <<"F","A","I","L","E","D","_","T","I","M","E","O","U","T">>,
      <<"q","u","e","u","e","d">>,
      <<"P","r","o","c","e","s","s","i","n","g">>,
      <<"R","U","N","N","I","N","G"," ","f","a","i","l","e","d">>,
      <<"E","r","r","o","r"," ","C","o","m","p","l","e","t","e">>,
      <<"r","u","n"," ","O","K">>,
      None }

-----------------------------------------------------------------------------
(* Specification of categorize_processes alone: any job list, one call *)

\* the parts of the state a specification does not use
CatIdle == all_processes = <<>> /\ categorized = EmptyBuckets

FindIdle == logs_dir = {} /\ process = NoProcess /\ log_file = NoFile /\ opened = <<>>

SumIdle == log_lines = <<>> /\ max_lines = 0 /\ summary = <<>>

MailIdle ==
    notification_email = None /\ accounts = <<>> /\ user_email = None /\ token = "none"

RunIdle ==
    /\ db_rows = <<>> /\ logs_dir_ok = FALSE /\ skip_apikeys = {}
    /\ db = "none" /\ log_retriever = FALSE
    /\ failed_logs = <<>> /\ finished_data = <<>> /\ lookups = <<>>
    /\ report = NoReport /\ sent = <<>> /\ error = "none" /\ faults = {}

InitCategorize ==
    /\ pc = "categorize"
    /\ \E n \in 0..MaxJobs : \E f \in [1..n -> StatusPool] :
           all_processes = [i \in 1..n |-> Job(i, f[i], KeyA, Noon)]
    /\ categorized = EmptyBuckets
    /\ FindIdle
    /\ SumIdle
    /\ RunIdle
    /\ MailIdle

CategorizeProcesses ==
    /\ pc = "categorize"
    /\ categorized' = categorize_processes(all_processes)
    /\ pc' = "categorized"
    /\ UNCHANGED <<all_processes, findVars, sumVars, runVars, mailVars>>

NextCategorize == CategorizeProcesses

SpecCategorize == InitCategorize /\ [][NextCategorize]_vars

-----------------------------------------------------------------------------
(* Claims about categorize_processes *)

AllStatusStrings == \A i \in 1..Len(all_processes) : all_processes[i].status_name # None

\* positions of the input that hold this job (uuids are unique in the input)
InputIndex(job) == CHOOSE i \in 1..Len(all_processes) : all_processes[i] = job

\* C1: for a job list whose statuses are all strings, the four buckets
\* partition the input exactly: every input job is at exactly one place of
\* exactly one bucket, no bucket holds anything else, and each bucket lists
\* its jobs in the order of the input.
C1_PartitionExact ==
    (pc = "categorized" /\ AllStatusStrings) =>
        /\ ~categorized.raised
        /\ \A i \in 1..Len(all_processes) :
              Cardinality({ <<b, k>> \in UNION { {b} \X (1..Len(categorized[b])) : b \in BucketNames } :
                              categorized[b][k] = all_processes[i] }) = 1
        /\ \A b \in BucketNames : \A k \in 1..Len(categorized[b]) :
              \E i \in 1..Len(all_processes) : all_processes[i] = categorized[b][k]
        /\ \A b \in BucketNames : \A k1, k2 \in 1..Len(categorized[b]) :
              k1 < k2 => InputIndex(categorized[b][k1]) < InputIndex(categorized[b][k2])

C1_Witness ==
    /\ pc = "categorized" /\ AllStatusStrings
    /\ Len(all_processes) = 3
    /\ Len(categorized.failed) = 2
    /\ Len(categorized.finished) = 1
    /\ all_processes[2] = categorized.finished[1]


-----------------------------------------------------------------------------
(* Claims about categorize_processes: the precedence of the patterns *)

\* the patterns of each bucket, in the order of precedence
PatternRules ==
    << [bucket |-> "finished",
        patterns |-> { <<"f","i","n","i","s","h">>, <<"c","o","m","p","l","e","t","e">> }],
       [bucket |-> "failed",
        patterns |-> { <<"f","a","i","l">>, <<"e","r","r","o","r">> }],
       [bucket |-> "running",
        patterns |-> { <<"r","u","n","n","i","n","g">>,
                       <<"p","r","o","c","e","s","s","i","n","g">> }] >>

SameLetter(c, d) ==
    \/ c = d
    \/ \E i \in 1..26 : {c, d} = {UpperCase[i], LowerCase[i]}

\* some window of the text spells the pattern, letter case ignored
MatchesIgnoringCase(pattern, text) ==
    \E k \in 0..(Len(text) - Len(pattern)) :
        \A j \in 1..Len(pattern) : SameLetter(text[k + j], pattern[j])

RuleMatches(r, text) ==
    \E p \in PatternRules[r].patterns : MatchesIgnoringCase(p, text)

ExpectedBucket(text) ==
    IF \E r \in 1..3 : RuleMatches(r, text)
    THEN PatternRules[CHOOSE r \in 1..3 :
                         RuleMatches(r, text) /\ \A q \in 1..(r - 1) : ~RuleMatches(q, text)].bucket
    ELSE "other"

InBucket(b, status) ==
    \E k \in 1..Len(categorized[b]) : categorized[b][k].status_name = status

\* C2: each job sits in the bucket of the first rule, in the order finished,
\* failed, running, whose pattern occurs in its status text with letter case
\* ignored, and in "other" when none occurs; a status matching several rules
\* is in the highest-precedence bucket only.
C2_BucketByPrecedence ==
    (pc = "categorized" /\ AllStatusStrings) =>
        /\ \A b \in BucketNames : \A k \in 1..Len(categorized[b]) :
              b = ExpectedBucket(categorized[b][k].status_name)
        /\ \A i \in 1..Len(all_processes) :
              LET st == all_processes[i].status_name
              IN  /\ st = <<"F","A","I","L","E","D","_","T","I","M","E","O","U","T">>
                        => InBucket("failed", st)
                  /\ st = <<"F","i","n","i","s","h","e","d","-","O","K">>
                        => InBucket("finished", st)
                  /\ st = <<"q","u","e","u","e","d">> => InBucket("other", st)
                  /\ st = <<"R","U","N","N","I","N","G"," ","f","a","i","l","e","d">>
                        => InBucket("failed", st) /\ ~InBucket("running", st)
                  /\ st = <<"E","r","r","o","r"," ","C","o","m","p","l","e","t","e">>
                        => InBucket("finished", st) /\ ~InBucket("failed", st)

C2_Witness ==
    /\ pc = "categorized" /\ AllStatusStrings
    /\ InBucket("failed", <<"R","U","N","N","I","N","G"," ","f","a","i","l","e","d">>)
    /\ InBucket("finished", <<"E","r","r","o","r"," ","C","o","m","p","l","e","t","e">>)
    /\ InBucket("other", <<"r","u","n"," ","O","K">>)

-----------------------------------------------------------------------------
(* Claims about categorize_processes: a status that is no string *)

InBucketJob(b, job) == \E k \in 1..Len(categorized[b]) : categorized[b][k] = job

\* C11: no job list makes categorize_processes raise: a job whose status is
\* null is in the "other" bucket, and every other job of the same list is
\* still in the bucket of its status.
C11_NullStatusIsOther ==
    pc = "categorized" =>
        /\ ~categorized.raised
        /\ \A i \in 1..Len(all_processes) :
              LET job == all_processes[i]
              IN  IF job.status_name = None
                  THEN InBucketJob("other", job)
                  ELSE InBucketJob(ExpectedBucket(job.status_name), job)

-----------------------------------------------------------------------------
(* Log directories of the model *)

Day6 == <<"2","0","2","6","-","0","2","-","0","6">>

Day5 == <<"2","0","2","6","-","0","2","-","0","5">>

\* <day>T<stamp>_perception_api.log<ext>
LogName(day, stamp, ext) == day \o <<"T">> \o stamp \o LogSuffix \o ext

NameT00 == LogName(Day6, <<"0","0">>, <<>>)

NameT03 == LogName(Day6, <<"0","3","-","0","8","-","1","4">>, <<>>)

NameT11gz == LogName(Day6, <<"1","1","-","3","0","-","0","0">>, <<".","g","z">>)

NameT12 == LogName(Day6, <<"1","2","-","3","0","-","0","0">>, <<>>)

NameT14 == LogName(Day6, <<"1","4","-","0","0","-","0","0">>, <<>>)

NameTbad == LogName(Day6, <<"b","a","d">>, <<>>)

NameDay5 == LogName(Day5, <<"2","3","-","0","0","-","0","0">>, <<>>)

NamePool == {NameT00, NameT03, NameT11gz, NameT12, NameT14, NameTbad, NameDay5}

LineInfoU2 == <<"I","N","F","O"," ","u","2"," ","s","t","a","r","t","e","d","\n">>

LineErrorU1 == <<"E","R","R","O","R"," ","u","1"," ","b","o","o","m","\n">>

\* what a file holds: lines naming job u1, lines that do not, or nothing
\* readable at all
ContentPool ==
    { [lines |-> <<LineInfoU2, LineErrorU1>>, fails |-> FALSE],
      [lines |-> <<LineInfoU2>>, fails |-> FALSE],
      [lines |-> <<>>, fails |-> TRUE] }

FileOf(name, content) ==
    [name |-> name, gz |-> EndsWith(name, <<".","g","z">>),
     lines |-> content.lines, fails |-> content.fails]

\* the directories of at most MaxFiles files
DirPool ==
    UNION { { { FileOf(n, c[n]) : n \in names } : c \in [names -> ContentPool] } :
            names \in { ns \in SUBSET NamePool : Cardinality(ns) <= MaxFiles } }

At(Y, M, D, h, m, s) == [Y |-> Y, M |-> M, D |-> D, h |-> h, m |-> m, s |-> s]

StartPool ==
    { Noon, At(2026, 2, 6, 11, 30, 0), At(2026, 2, 6, 0, 30, 0), At(2026, 2, 5, 23, 30, 0) }

StatusFailed == <<"F","a","i","l","e","d">>

-----------------------------------------------------------------------------
(* Specification of find_log_file alone: any directory, any start time *)

InitFind ==
    /\ pc = "find"
    /\ CatIdle
    /\ logs_dir \in DirPool
    /\ \E start \in StartPool : process = Job(1, StatusFailed, KeyA, start)
    /\ log_file = NoFile
    /\ opened = <<>>
    /\ SumIdle
    /\ RunIdle
    /\ MailIdle

FindLogFile ==
    /\ pc = "find"
    /\ LET r == find_log_file(logs_dir, process.process_uuid, process.start_time)
       IN  /\ log_file' = r.log_file
           /\ opened' = r.opened
    /\ pc' = "found"
    /\ UNCHANGED <<catVars, logs_dir, process, sumVars, runVars, mailVars>>

NextFind == FindLogFile

SpecFind == InitFind /\ [][NextFind]_vars

-----------------------------------------------------------------------------
(* Claims about find_log_file *)

\* the moment each file name of the model states (NoStamp: it states none)
NoStamp == At(0, 0, 0, 0, 0, 0)

StampOf(name) ==
    IF name = NameT03 THEN At(2026, 2, 6, 3, 8, 14)
    ELSE IF name = NameT11gz THEN At(2026, 2, 6, 11, 30, 0)
    ELSE IF name = NameT12 THEN At(2026, 2, 6, 12, 30, 0)
    ELSE IF name = NameT14 THEN At(2026, 2, 6, 14, 0, 0)
    ELSE IF name = NameDay5 THEN At(2026, 2, 5, 23, 0, 0)
    ELSE NoStamp

DayOf(name) == IF name = NameDay5 THEN <<2026, 2, 5>> ELSE <<2026, 2, 6>>

\* seconds from the model's first day, counted without the calendar routine
Moment(t) == (t.D - 5) * 24 * 3600 + t.h * 3600 + t.m * 60 + t.s

\* the file is of the day of the job's start and has the plain .log name
IsCandidate(f) ==
    /\ DayOf(f.name) = <<process.start_time.Y, process.start_time.M, process.start_time.D>>
    /\ f.name # NameT11gz

\* the file names a line that holds the job's identifier
HoldsId(f) == \E i \in 1..Len(f.lines) : Contains(process.process_uuid, f.lines[i])

\* the window the code applies to a stated file time
InCodeWindow(f) ==
    /\ Moment(StampOf(f.name)) >= Moment(process.start_time) - 24 * 3600
    /\ Moment(StampOf(f.name)) <= Moment(process.start_time) + 3600

Admissible(f) == StampOf(f.name) = NoStamp \/ InCodeWindow(f)

\* C3 as stated: a selected file whose name states a time has that time in
\* [start - 1 hour, start + 24 hours].
C3_WindowAsStated ==
    (pc = "found" /\ log_file # NoFile /\ StampOf(log_file.name) # NoStamp) =>
        /\ Moment(StampOf(log_file.name)) >= Moment(process.start_time) - 3600
        /\ Moment(StampOf(log_file.name)) <= Moment(process.start_time) + 24 * 3600

\* C3 amended: a selected file whose name states a time has that time in
\* [start - 24 hours, start + 1 hour]: the log began at most a day before the
\* job and at most an hour after it.
C3_WindowOfCode ==
    (pc = "found" /\ log_file # NoFile /\ StampOf(log_file.name) # NoStamp) =>
        /\ Moment(StampOf(log_file.name)) >= Moment(process.start_time) - 24 * 3600
        /\ Moment(StampOf(log_file.name)) <= Moment(process.start_time) + 3600

C3_Witness ==
    /\ pc = "found"
    /\ log_file.name = NameT12
    /\ process.start_time = At(2026, 2, 6, 11, 30, 0)
    /\ \E f \in logs_dir : f.name = NameT14 /\ HoldsId(f)

\* the admissible candidates that hold the identifier
Eligible == { f \in logs_dir : IsCandidate(f) /\ Admissible(f) /\ HoldsId(f) }

\* C4: the result is one file or none; it is the admissible candidate holding
\* the identifier whose name is least, and none when there is no such
\* candidate.
C4_FirstInNameOrder ==
    pc = "found" =>
        IF Eligible = {} THEN log_file = NoFile
        ELSE /\ log_file \in Eligible
             /\ \A g \in Eligible \ {log_file} : StrLess(log_file.name, g.name)

\* candidates [A, B, C] all admissible, B and C holding the id: the result is B
C4_Witness ==
    /\ pc = "found"
    /\ process.start_time = Noon
    /\ { f.name : f \in logs_dir } = {NameT00, NameT03, NameT12}
    /\ { f.name : f \in Eligible } = {NameT03, NameT12}
    /\ log_file.name = NameT03

\* C5: a file of the requested day whose name states no time is scanned
\* whenever no candidate before it is selected, and is the result when it
\* holds the identifier and no admissible candidate before it does.
C5_FailOpen ==
    pc = "found" =>
        \A f \in logs_dir :
            (/\ IsCandidate(f)
             /\ StampOf(f.name) = NoStamp
             /\ \A g \in Eligible : g = f \/ StrLess(f.name, g.name))
            => /\ \E i \in 1..Len(opened) : opened[i] = f.name
               /\ HoldsId(f) => log_file = f

\* the file Tbad is selected although the parseable candidate before it lies
\* outside the window
C5_Witness ==
    /\ pc = "found"
    /\ log_file.name = NameTbad
    /\ process.start_time = At(2026, 2, 6, 0, 30, 0)
    /\ \E f \in logs_dir : f.name = NameT03 /\ HoldsId(f)
    /\ opened = <<NameTbad>>

\* C6 as stated: a gzip file of the requested day, admissible and holding
\* the identifier, is the result when no candidate before it holds the
\* identifier.
C6_GzipIsCandidate ==
    pc = "found" =>
        \A f \in logs_dir :
            (/\ f.name = NameT11gz
             /\ DayOf(f.name) = <<process.start_time.Y, process.start_time.M,
                                  process.start_time.D>>
             /\ InCodeWindow(f)
             /\ HoldsId(f)
             /\ \A g \in Eligible : StrLess(f.name, g.name))
            => log_file = f

\* the file of the directory with the name
FileNamed(name) == CHOOSE f \in logs_dir : f.name = name

\* C19: the files find_log_file opens are admissible candidates, opened once
\* each in the order of their names; none of them but the last holds the
\* identifier, and when a file is selected it is the last one opened: no
\* candidate after the result and no candidate the time window rejects is
\* opened.
C19_ShortCircuit ==
    pc = "found" =>
        /\ \A k \in 1..Len(opened) :
              /\ \E f \in logs_dir : f.name = opened[k]
              /\ IsCandidate(FileNamed(opened[k]))
              /\ Admissible(FileNamed(opened[k]))
        /\ \A k1, k2 \in 1..Len(opened) : k1 < k2 => StrLess(opened[k1], opened[k2])
        /\ \A k \in 1..(Len(opened) - 1) : ~HoldsId(FileNamed(opened[k]))
        /\ log_file # NoFile =>
              /\ Len(opened) > 0
              /\ opened[Len(opened)] = log_file.name

\* candidates [T00, T03, T12] with the id in T03 and T12: T00 and T03 are
\* opened, T12 is not
C19_Witness ==
    /\ pc = "found"
    /\ process.start_time = Noon
    /\ { f.name : f \in logs_dir } = {NameT00, NameT03, NameT12}
    /\ { f.name : f \in Eligible } = {NameT03, NameT12}
    /\ opened = <<NameT00, NameT03>>

-----------------------------------------------------------------------------
(* Specification of extract_error_summary alone: any lines, any max_lines *)

LinePool ==
    { LineErrorU1,
      <<"u","1"," ","t","a","s","k"," ","f","a","i","l","e","d","\n">>,
      <<"I","N","F","O"," ","u","1"," ","s","t","a","r","t","e","d","\n">>,
      <<"u","1"," ","d","o","n","e","\n">> }

InitSummary ==
    /\ pc = "summarize"
    /\ CatIdle
    /\ FindIdle
    /\ \E n \in 0..MaxLogLines : log_lines \in [1..n -> LinePool]
    /\ max_lines \in 0..MaxLinesArg
    /\ summary = <<>>
    /\ RunIdle
    /\ MailIdle

ExtractErrorSummary ==
    /\ pc = "summarize"
    /\ summary' = extract_error_summary(log_lines, max_lines)
    /\ pc' = "summarized"
    /\ UNCHANGED <<catVars, findVars, log_lines, max_lines, runVars, mailVars>>

NextSummary == ExtractErrorSummary

SpecSummary == InitSummary /\ [][NextSummary]_vars

-----------------------------------------------------------------------------
(* Claims about extract_error_summary *)

SeverityMarkers ==
    { <<"E","R","R","O","R">>, <<"E","X","C","E","P","T","I","O","N">>,
      <<"T","R","A","C","E","B","A","C","K">>, <<"C","R","I","T","I","C","A","L">>,
      <<"F","A","T","A","L">>, <<"F","a","i","l","e","d">>,
      <<"E","x","c","e","p","t","i","o","n",":">> }

HasMarker(line) == \E mk \in SeverityMarkers : MatchesIgnoringCase(mk, line)

\* the positions of log_lines whose line has a marker
MarkerPositions == { i \in 1..Len(log_lines) : HasMarker(log_lines[i]) }

\* the lines at the last n of the positions, in the order of the positions
RECURSIVE LinesAt(_)
LinesAt(positions) ==
    IF positions = {} THEN <<>>
    ELSE LET i == CHOOSE i \in positions : \A j \in positions : i <= j
         IN  log_lines[i] \o LinesAt(positions \ {i})

LastOf(positions, n) ==
    { i \in positions : Cardinality({ j \in positions : j > i }) < n }

\* C7: with at least one marker line (and max_lines at least 1) the text is
\* the error header carrying the number of all marker lines, then the last
\* max_lines marker lines in their order in the log.
C7_ErrorSummary ==
    (pc = "summarized" /\ max_lines >= 1 /\ MarkerPositions # {}) =>
        summary =
            <<"=","=","="," ","E","r","r","o","r"," ","S","u","m","m","a","r","y"," ","(">>
            \o IntToStr(Cardinality(MarkerPositions))
            \o <<" ","e","r","r","o","r"," ","l","i","n","e","s"," ","f","o","u","n","d",")",
                 " ","=","=","=","\n","\n">>
            \o LinesAt(LastOf(MarkerPositions, max_lines))

\* three marker lines of which the last two are shown
C7_Witness ==
    /\ pc = "summarized"
    /\ max_lines = 2
    /\ Cardinality(MarkerPositions) = 3
    /\ log_lines[1] # log_lines[3]

\* C8: with lines but no marker line (and max_lines at least 1) the text is
\* the tail header carrying min(max_lines, number of lines), then the last
\* max_lines lines in their order.
C8_TailFallback ==
    (pc = "summarized" /\ max_lines >= 1 /\ Len(log_lines) >= 1 /\ MarkerPositions = {}) =>
        LET shown == IF max_lines < Len(log_lines) THEN max_lines ELSE Len(log_lines)
        IN  summary =
                <<"=","=","="," ","L","a","s","t"," ">> \o IntToStr(shown)
                \o <<" ","l","o","g"," ","l","i","n","e","s"," ","=","=","=","\n","\n">>
                \o LinesAt(LastOf(1..Len(log_lines), max_lines))

C8_Witness ==
    /\ pc = "summarized"
    /\ max_lines = 2
    /\ Len(log_lines) = 3
    /\ MarkerPositions = {}
    /\ log_lines[1] # log_lines[3]

\* C9: with no lines the text is the sentinel alone, whatever max_lines is.
C9_NoDataSentinel ==
    (pc = "summarized" /\ Len(log_lines) = 0) =>
        summary = <<"N","o"," ","l","o","g"," ","d","a","t","a"," ",
                    "a","v","a","i","l","a","b","l","e">>

C9_Witness ==
    /\ pc = "summarized"
    /\ Len(log_lines) = 0
    /\ max_lines = 0
    /\ Len(summary) = 21

\* the text of the summary behind its header, which ends with an empty line
SummaryBody ==
    LET end == CHOOSE i \in 1..(Len(summary) - 1) :
                   /\ summary[i] = "\n" /\ summary[i + 1] = "\n"
                   /\ \A j \in 1..(i - 1) : ~(summary[j] = "\n" /\ summary[j + 1] = "\n")
    IN  SubSeq(summary, end + 2, Len(summary))

\* C23: for every list of lines and every max_lines from 0 on, the text
\* behind the header is made of at most max_lines of the lines.
C23_BoundedByMaxLines ==
    (pc = "summarized" /\ Len(log_lines) >= 1) =>
        \E shown \in SUBSET (1..Len(log_lines)) :
            /\ Cardinality(shown) <= max_lines
            /\ SummaryBody = LinesAt(shown)

-----------------------------------------------------------------------------
(* The run of DailyReportOrchestrator: what the database, the skip file,    *)
(* the log directory and the storage may hold                               *)

KeyT == <<"k","T">>

\* the status and tenant key of a row
RowKinds ==
    { <<<<"F","i","n","i","s","h","e","d">>, KeyA>>,
      <<<<"F","i","n","i","s","h","e","d">>, KeyT>>,
      <<<<"F","i","n","i","s","h","e","d">>, None>>,
      <<<<"F","a","i","l","e","d",":"," ","t","i","m","e","o","u","t">>, KeyA>>,
      <<<<"F","i","n","i","s","h","e","d">>, <<>>>>,
      <<<<"P","r","o","c","e","s","s","i","n","g">>, KeyA>>,
      <<<<"q","u","e","u","e","d">>, KeyT>>,
      <<None, KeyA>> }

RowLists ==
    UNION { { [i \in 1..n |-> Job(i, k[i][1], k[i][2], Noon)] : k \in [1..n -> RowKinds] } :
            n \in 0..MaxRows }

SkipFilePool ==
    { NoSkipFile,
      [exists |-> TRUE,
       lines |-> << <<"#"," ","t","e","s","t"," ","k","A","\n">>,
                    <<" ","k","T"," ","\n">>, <<"\n">> >>],
      [exists |-> TRUE, lines |-> << <<"k","T","\n">>, <<"k","A","\n">> >>] }

\* the log directory of a run: a first file that cannot be read, job u1 in
\* the second file, job u2 in the third
RunDir ==
    { [name |-> NameT00, gz |-> FALSE, fails |-> TRUE, lines |-> <<>>],
      [name |-> NameT03, gz |-> FALSE, fails |-> FALSE, lines |-> <<LineErrorU1>>],
      [name |-> NameT12, gz |-> FALSE, fails |-> FALSE, lines |-> <<LineInfoU2>>] }

\* what the storage answers to the listing of a job's folder
NoResponse == [status |-> 0, items |-> <<>>]

\* a folder with a subfolder and a video
ListingWithVideo ==
    [status |-> 200,
     items |-> << [file |-> FALSE, name |-> <<"r","a","w">>, webUrl |-> <<"https://v/raw">>],
                  [file |-> TRUE, name |-> <<"o","u","t",".","M","P","4">>,
                   webUrl |-> <<"https://v/out">>] >>]

\* a folder with a file that is no video
ListingWithoutVideo ==
    [status |-> 200,
     items |-> << [file |-> TRUE, name |-> <<"n","o","t","e","s",".","t","x","t">>,
                   webUrl |-> <<"https://v/notes">>] >>]

\* the answers to a lookup in the folders of a tenant: the folders of tenant
\* T are listed, missing or refused by the server; those of the other tenants
\* are listed, with or without a video, or the request does not get through
ResponsePool(api_key) ==
    IF api_key = KeyT
    THEN { ListingWithVideo, [status |-> 404, items |-> <<>>], [status |-> 500, items |-> <<>>] }
    ELSE { ListingWithVideo, ListingWithoutVideo, RequestFailed }

AllResponses == ResponsePool(KeyT) \cup ResponsePool(KeyA) \cup {NoResponse}

\* datetime.now() of the run
Now == At(2026, 2, 7, 6, 0, 0)

-----------------------------------------------------------------------------
(* Specification of a run: __init__, then run() step by step *)

Init ==
    /\ pc = "initialize"
    /\ db_rows = <<>>
    /\ logs_dir_ok \in BOOLEAN
    /\ logs_dir = IF logs_dir_ok THEN RunDir ELSE {}
    /\ \E skip_file \in SkipFilePool : skip_apikeys = load_skip_apikeys(skip_file)
    /\ CatIdle
    /\ process = NoProcess /\ log_file = NoFile /\ opened = <<>>
    /\ SumIdle
    /\ db = "none" /\ log_retriever = FALSE
    /\ failed_logs = <<>> /\ finished_data = <<>> /\ lookups = <<>>
    /\ report = NoReport /\ sent = <<>> /\ error = "none" /\ faults = {}
    /\ MailIdle

\* how initialize() can end: all components built, the connection refused
\* (self.db is never assigned), or the authentication of a Graph client failed
InitializeOutcomes == {"ok", "psycopg2.Error", "RuntimeError"}

\* initialize(): the connection, the retriever when LOGS_DIR is usable, the
\* storage client and the mail client
Initialize ==
    /\ pc = "initialize"
    /\ \E outcome \in InitializeOutcomes :
         /\ db' = IF outcome = "psycopg2.Error" THEN db ELSE "open"
         /\ log_retriever' = IF outcome = "psycopg2.Error" THEN log_retriever ELSE logs_dir_ok
         /\ error' = IF outcome = "ok" THEN error ELSE outcome
         /\ faults' = IF outcome = "psycopg2.Error" THEN faults \cup {"connect"}
                       ELSE IF outcome = "RuntimeError" THEN faults \cup {"authenticate"}
                       ELSE faults
         /\ pc' = IF outcome = "ok" THEN "fetch" ELSE "finally"
    /\ UNCHANGED <<mailVars, catVars, findVars, sumVars, db_rows, logs_dir_ok, skip_apikeys,
                   failed_logs, finished_data, lookups, report, sent>>

\* a slip: a failed query answered with the empty list instead of re-raised
FetchProcesses_EmptyOnError ==
    /\ pc = "fetch"
    /\ \E answered \in BOOLEAN :
         \E result \in IF answered THEN RowLists ELSE {<<>>} :
             LET rows == FilterSkipped(result, skip_apikeys)
                 cat  == categorize_processes(rows)
             IN  /\ db_rows' = result
                 /\ faults' = IF answered THEN faults ELSE faults \cup {"query"}
                 /\ IF cat.raised
                    THEN /\ error' = "AttributeError"
                         /\ pc' = "finally"
                         /\ UNCHANGED catVars
                    ELSE /\ all_processes' = rows
                         /\ categorized' = cat
                         /\ pc' = "failed"
                         /\ UNCHANGED error
    /\ UNCHANGED <<mailVars, findVars, sumVars, logs_dir_ok, skip_apikeys, db,
                   log_retriever, failed_logs, finished_data, lookups, report, sent>>

\* fetch_processes(): the query, which fails or returns the rows of the last
\* 24 hours, then the skip filter and the classification
FetchProcesses ==
    /\ pc = "fetch"
    /\ \E answered \in BOOLEAN :
         IF ~answered
         THEN /\ error' = "psycopg2.Error"
              /\ faults' = faults \cup {"query"}
              /\ pc' = "finally"
              /\ UNCHANGED <<catVars, db_rows>>
         ELSE \E result \in RowLists :
                LET rows == FilterSkipped(result, skip_apikeys)
                    cat  == categorize_processes(rows)
                IN  /\ db_rows' = result
                    /\ IF cat.raised
                       THEN /\ error' = "AttributeError"
                            /\ pc' = "finally"
                            /\ UNCHANGED <<catVars, faults>>
                       ELSE /\ all_processes' = rows
                            /\ categorized' = cat
                            /\ pc' = "failed"
                            /\ UNCHANGED <<error, faults>>
    /\ UNCHANGED <<mailVars, findVars, sumVars, logs_dir_ok, skip_apikeys, db,
                   log_retriever, failed_logs, finished_data, lookups, report, sent>>

\* process_failed_processes(): the logs of the failed jobs are found, extracted
\* and saved; the output directory can be written or it cannot, and a file
\* that find_log_file has read can be gone or unreadable at the extraction
ProcessFailedProcesses ==
    /\ pc = "failed"
    /\ \E writable \in BOOLEAN,
          lost \in SUBSET LogFound(log_retriever, logs_dir, categorized.failed) :
         IF SaveRaises(log_retriever, logs_dir, categorized.failed, writable)
         THEN /\ error' = "OSError"
              /\ faults' = faults \cup {"save"}
              /\ pc' = "finally"
              /\ UNCHANGED failed_logs
         ELSE /\ failed_logs' =
                    process_failed_processes(log_retriever, logs_dir, categorized.failed,
                                             lost)
              /\ pc' = "finished"
              /\ UNCHANGED <<error, faults>>
    /\ UNCHANGED <<mailVars, catVars, findVars, sumVars, db_rows, logs_dir_ok, skip_apikeys, db,
                   log_retriever, finished_data, lookups, report, sent>>

ProcessFinishedProcesses ==
    /\ pc = "finished"
    /\ \E responses \in [1..Len(categorized.finished) -> AllResponses] :
         /\ \A i \in 1..Len(categorized.finished) :
               IF Requested(categorized.finished, responses, i)
               THEN responses[i] \in ResponsePool(categorized.finished[i].api_key)
               ELSE responses[i] = NoResponse
         /\ lookups' = LookupsOf(categorized.finished, responses)
         /\ IF LookupRaises(categorized.finished, responses)
            THEN /\ error' = "ConnectionError"
                 /\ faults' = faults \cup {"request"}
                 /\ pc' = "finally"
                 /\ UNCHANGED finished_data
            ELSE /\ finished_data' =
                       process_finished_processes(categorized.finished, responses)
                 /\ pc' = "report"
                 /\ UNCHANGED <<error, faults>>
    /\ UNCHANGED <<mailVars, catVars, findVars, sumVars, db_rows, logs_dir_ok, skip_apikeys, db,
                   log_retriever, failed_logs, report, sent>>

\* a slip: the HTTPError of the send printed and not re-raised
GenerateAndSendReport_SendErrorSwallowed ==
    /\ pc = "report"
    /\ report' = generate_report(categorized, failed_logs, finished_data, Now)
    /\ \E accepted \in BOOLEAN :
         /\ sent' = Append(sent, [subject |-> report'.subject,
                                  content |-> report'.html_body,
                                  accepted |-> accepted])
         /\ faults' = IF accepted THEN faults ELSE faults \cup {"send"}
    /\ pc' = "finally"
    /\ UNCHANGED <<mailVars, catVars, findVars, sumVars, db_rows, logs_dir_ok, skip_apikeys, db,
                   log_retriever, failed_logs, finished_data, lookups, error>>

\* generate_and_send_report(): the report is built and its HTML body posted;
\* the mail service accepts the mail or send_report raises HTTPError
GenerateAndSendReport ==
    /\ pc = "report"
    /\ report' = generate_report(categorized, failed_logs, finished_data, Now)
    /\ \E accepted \in BOOLEAN :
         /\ sent' = Append(sent, [subject |-> report'.subject,
                                  content |-> report'.html_body,
                                  accepted |-> accepted])
         /\ error' = IF accepted THEN error ELSE "HTTPError"
         /\ faults' = IF accepted THEN faults ELSE faults \cup {"send"}
    /\ pc' = "finally"
    /\ UNCHANGED <<mailVars, catVars, findVars, sumVars, db_rows, logs_dir_ok, skip_apikeys, db,
                   log_retriever, failed_logs, finished_data, lookups>>

\* a slip: cleanup() as the last statement of the try block
Cleanup_OnlyOnSuccess ==
    /\ pc = "finally"
    /\ db' = IF db = "open" /\ error = "none" THEN "closed" ELSE db
    /\ pc' = IF error = "none" THEN "returned" ELSE "raised"
    /\ UNCHANGED <<mailVars, catVars, findVars, sumVars, db_rows, logs_dir_ok, skip_apikeys,
                   log_retriever, failed_logs, finished_data, lookups, report, sent, error,
                   faults>>

\* the finally clause of run(): cleanup(), then run() returns or raises
Cleanup ==
    /\ pc = "finally"
    /\ db' = IF db = "open" THEN "closed" ELSE db
    /\ pc' = IF error = "none" THEN "returned" ELSE "raised"
    /\ UNCHANGED <<mailVars, catVars, findVars, sumVars, db_rows, logs_dir_ok, skip_apikeys,
                   log_retriever, failed_logs, finished_data, lookups, report, sent, error,
                   faults>>

Next ==
    \/ Initialize
    \/ FetchProcesses
    \/ ProcessFailedProcesses
    \/ ProcessFinishedProcesses
    \/ GenerateAndSendReport
    \/ Cleanup

Spec == Init /\ [][Next]_vars

-----------------------------------------------------------------------------
(* Claims about the tenant skip filter *)

\* the rows of the database whose tenant key is in the skip set
SkippedRows == { i \in 1..Len(db_rows) : db_rows[i].api_key \in skip_apikeys }

KeptRows == { i \in 1..Len(db_rows) : db_rows[i].api_key \notin skip_apikeys }

\* the rows at the positions, in the order of the positions
RECURSIVE RowsAt(_)
RowsAt(positions) ==
    IF positions = {} THEN <<>>
    ELSE LET i == CHOOSE i \in positions : \A j \in positions : i <= j
         IN  <<db_rows[i]>> \o RowsAt(positions \ {i})

InSomeBucket(uuid) ==
    \E b \in BucketNames : \E k \in 1..Len(categorized[b]) :
        categorized[b][k].process_uuid = uuid

\* C10: a job whose tenant key is in the skip set is in none of the four
\* buckets, a key of neither result mapping, looked up in no storage folder,
\* and its identifier occurs nowhere in the HTML body, the text body or a
\* posted mail; the list that is classified is the database's list without
\* these jobs, in the same order.
C10_SkippedAbsent ==
    /\ \A i \in SkippedRows :
          LET uuid == db_rows[i].process_uuid
          IN  /\ ~InSomeBucket(uuid)
              /\ uuid \notin DOMAIN failed_logs
              /\ uuid \notin DOMAIN finished_data
              /\ \A k \in 1..Len(lookups) : lookups[k].process_uuid # uuid
              /\ report # NoReport =>
                    ~Contains(uuid, report.html_body) /\ ~Contains(uuid, report.text_body)
              /\ \A k \in 1..Len(sent) : ~Contains(uuid, sent[k].content)
    /\ pc \in {"failed", "finished", "report"} \/ report # NoReport =>
          /\ all_processes = RowsAt(KeptRows)
          /\ TotalProcesses(categorized) = Cardinality(KeptRows)

\* a finished and a failed job of a skipped tenant, and a job that is kept
\* and reported
C10_Witness ==
    /\ pc = "returned"
    /\ Len(sent) = 1
    /\ \E i, j \in SkippedRows :
          /\ db_rows[i].status_name = <<"F","i","n","i","s","h","e","d">>
          /\ StartsWith(db_rows[j].status_name, <<"F","a","i","l","e","d">>)
    /\ \E i \in KeptRows : Contains(db_rows[i].process_uuid, report.html_body)

-----------------------------------------------------------------------------
(* Claims about a run without a log directory *)

\* the places of a body where a card names the job
CardsNaming(body, uuid) ==
    { a \in 1..Len(body) :
        /\ body[a] = "</h3>Process UUID:"
        /\ a + Len(uuid) + 1 <= Len(body)
        /\ SubSeq(body, a + 1, a + Len(uuid)) = uuid
        /\ body[a + Len(uuid) + 1] = "Status:" }

\* a card that names the job holds the text before the card ends
ShowsInCard(body, uuid, text) ==
    \E a \in CardsNaming(body, uuid) : \E k \in (a + 1)..Len(body) :
        /\ body[k] = text
        /\ \A j \in (a + 1)..(k - 1) : body[j] # "</div>"

FailedStepDone == pc \notin {"initialize", "fetch", "failed"}

\* C12: in a run without a usable log directory the step of the failed jobs
\* does not raise; every failed job has a result with found = false, no file
\* path and the summary "Log retrieval not configured", and the HTML body of
\* the report shows "Log file not found" in the card of each such job.
C12_NoLogDirectory ==
    (~logs_dir_ok /\ FailedStepDone) =>
        /\ error # "OSError"
        /\ DOMAIN failed_logs =
              { categorized.failed[i].process_uuid : i \in 1..Len(categorized.failed) }
        /\ \A i \in 1..Len(categorized.failed) :
              LET uuid == categorized.failed[i].process_uuid
              IN  /\ ~failed_logs[uuid].found
                  /\ failed_logs[uuid].log_file = None
                  /\ failed_logs[uuid].saved_path = None
                  /\ failed_logs[uuid].summary = LogRetrievalNotConfigured
                  /\ report # NoReport =>
                        /\ ShowsInCard(report.html_body, uuid, "Log file not found")
                        /\ ~ShowsInCard(report.html_body, uuid, "Error Summary:")

\* two failed jobs reported by a run that had no log directory
C12_Witness ==
    /\ ~logs_dir_ok
    /\ pc = "returned"
    /\ Len(categorized.failed) = 2
    /\ \A i \in 1..2 :
          ShowsInCard(report.html_body, categorized.failed[i].process_uuid,
                      "Log file not found")

-----------------------------------------------------------------------------
(* Claims about a finished job without a video *)

SectionTitles ==
    {"<h2>Failed Processes</h2>", "<h2>Finished Processes</h2>", "<h2>Running Processes</h2>"}

\* a card that names the job stands under the title and holds the text
ShowsInSection(body, uuid, title, text) ==
    \E a \in CardsNaming(body, uuid) :
        /\ \E h \in 1..(a - 1) :
              /\ body[h] = title
              /\ \A j \in (h + 1)..a : body[j] \notin SectionTitles
        /\ \E k \in (a + 1)..Len(body) :
              /\ body[k] = text
              /\ \A j \in (a + 1)..(k - 1) : body[j] # "</div>"

VideoSuffixes == {"mp4", "avi", "mov", "mkv", "webm"}

SuffixLetters(x) ==
    CASE x = "mp4" -> <<"m","p","4">> [] x = "avi" -> <<"a","v","i">>
      [] x = "mov" -> <<"m","o","v">> [] x = "mkv" -> <<"m","k","v">>
      [] x = "webm" -> <<"w","e","b","m">>

\* the name ends in a dot and a video suffix, letter case ignored
HasVideoExtension(name) ==
    \E x \in VideoSuffixes :
        LET suf == <<".">> \o SuffixLetters(x)
        IN  /\ Len(name) >= Len(suf)
            /\ \A j \in 1..Len(suf) : SameLetter(name[Len(name) - Len(suf) + j], suf[j])

\* the folder was listed and holds no file with a video extension
NoVideoListing(response) ==
    /\ response.status = 200
    /\ \A i \in 1..Len(response.items) :
          ~(response.items[i].file /\ HasVideoExtension(response.items[i].name))

FinishedStepDone == pc = "report" \/ report # NoReport

\* C13: a finished job with a tenant key whose folder holds no file with a
\* video extension does not end the step with an error; its entry has
\* video_link = None, and the HTML body lists the job under the finished
\* jobs with the text "Not found in OneDrive" and without a link.
C13_NoVideoStillListed ==
    \A k \in 1..Len(lookups) :
        NoVideoListing(lookups[k].response) =>
            LET uuid == lookups[k].process_uuid
            IN  /\ (k = Len(lookups) /\ pc # "finished") => error # "ConnectionError"
                /\ FinishedStepDone =>
                      /\ uuid \in DOMAIN finished_data
                      /\ finished_data[uuid].video_link = None
                      /\ finished_data[uuid].api_key = lookups[k].api_key
                /\ report # NoReport =>
                      /\ ShowsInSection(report.html_body, uuid,
                                        "<h2>Finished Processes</h2>",
                                        "Video:Not found in OneDrive")
                      /\ ~ShowsInCard(report.html_body, uuid, "Video:<a href=")

\* a reported run with such a job next to a job whose video was found
C13_Witness ==
    /\ pc = "returned"
    /\ \E k, m \in 1..Len(lookups) :
          /\ NoVideoListing(lookups[k].response)
          /\ Len(lookups[k].response.items) > 0
          /\ ShowsInCard(report.html_body, lookups[k].process_uuid,
                         "Video:Not found in OneDrive")
          /\ ShowsInCard(report.html_body, lookups[m].process_uuid, "Video:<a href=")

-----------------------------------------------------------------------------
(* Claims about the steps that can end a run *)

\* C14: once the jobs are fetched, the step of the failed jobs always hands
\* over to the step of the finished jobs, that step always hands over to the
\* report, and the report step builds the report and posts it: no failure of
\* a log scan, of saving an excerpt or of a storage lookup ends the run.
C14_EnrichmentBestEffort ==
    [][/\ pc = "failed" => pc' = "finished"
       /\ pc = "finished" => pc' = "report"
       /\ pc = "report" => report' # NoReport /\ Len(sent') = Len(sent) + 1]_vars

-----------------------------------------------------------------------------
(* Claims about a storage lookup answered with an HTTP error status *)

HttpError(response) == response.status >= 400

\* the place of the job in the list of the finished jobs
FinishedIndex(uuid) ==
    CHOOSE i \in 1..Len(categorized.finished) : categorized.finished[i].process_uuid = uuid

\* the finished jobs after place i that have a tenant key
LaterWithKey(i) ==
    { j \in (i + 1)..Len(categorized.finished) :
        categorized.finished[j].api_key # None /\ Len(categorized.finished[j].api_key) > 0 }

\* C15: a lookup answered with an HTTP error status, 404 or another, does
\* not leave the loop: the next finished job with a tenant key is looked up
\* as well, and after the last such job the run goes on to the report; the
\* entry of the job has video_link = None.
C15_HttpErrorIsNotFound ==
    \A k \in 1..Len(lookups) :
        HttpError(lookups[k].response) =>
            LET uuid  == lookups[k].process_uuid
                later == LaterWithKey(FinishedIndex(uuid))
            IN  /\ later # {} =>
                      /\ k < Len(lookups)
                      /\ lookups[k + 1].process_uuid =
                            categorized.finished[CHOOSE j \in later :
                                                    \A m \in later : j <= m].process_uuid
                /\ later = {} => FinishedStepDone
                /\ FinishedStepDone =>
                      /\ uuid \in DOMAIN finished_data
                      /\ finished_data[uuid].video_link = None

\* a 404 and a 500 in one run, a job looked up after them, and the report
C15_Witness ==
    /\ pc = "returned"
    /\ Len(lookups) = 3
    /\ lookups[1].response.status = 404
    /\ lookups[2].response.status = 500
    /\ finished_data[lookups[3].process_uuid].video_link # None
    /\ ShowsInCard(report.html_body, lookups[2].process_uuid, "Video:Not found in OneDrive")

\* C16: after the connection or the query failed, the run is raising that
\* error to its caller (it is in its finally clause or has left it raising),
\* no report was generated and nothing was posted to the mail service.
C16_DatabaseFailureFatal ==
    (faults \cap {"connect", "query"} # {}) =>
        /\ error = "psycopg2.Error"
        /\ pc \in {"finally", "raised"}
        /\ report = NoReport
        /\ sent = <<>>

\* the query failed on a connection that was open, and run() has raised
C16_Witness ==
    /\ "query" \in faults
    /\ pc = "raised"
    /\ db = "closed"

\* C17: after the mail service refused the report, the run is raising the
\* error of the send to its caller: it never returns normally, and no mail
\* of the run counts as accepted.
C17_SendFailureFatal ==
    ("send" \in faults) =>
        /\ error = "HTTPError"
        /\ pc \in {"finally", "raised"}
        /\ \A k \in 1..Len(sent) : ~sent[k].accepted

\* a report of three jobs was built and posted, the send failed, run() raised
C17_Witness ==
    /\ "send" \in faults
    /\ pc = "raised"
    /\ report # NoReport
    /\ Len(sent) = 1
    /\ TotalProcesses(categorized) = 3

-----------------------------------------------------------------------------
(* Claims about the summary of the report *)

\* the row of the summary table with these four numbers
SummaryRow(total, finished, failed, running) ==
    <<"<h2>Summary</h2><th>Total Processes</th><th>Finished</th><th>Failed</th><th>Running</th><td>">>
    \o IntToStr(total) \o <<"</td><td badge-finished>">> \o IntToStr(finished)
    \o <<"</td><td badge-failed>">> \o IntToStr(failed)
    \o <<"</td><td badge-running>">> \o IntToStr(running) \o <<"</td>">>

\* the summary lines of the text body with these four numbers
SummaryLines(total, finished, failed, running) ==
    <<"Total Processes: ">> \o IntToStr(total) \o <<"\n">>
    \o <<"  Finished: ">> \o IntToStr(finished) \o <<"\n">>
    \o <<"  Failed: ">> \o IntToStr(failed) \o <<"\n">>
    \o <<"  Running: ">> \o IntToStr(running) \o <<"\n">>

\* the three jobs of the example, none of a skipped tenant
ExampleJobs ==
    /\ Len(all_processes) = 3
    /\ all_processes[1].status_name = <<"F","i","n","i","s","h","e","d">>
    /\ all_processes[2].status_name =
          <<"F","a","i","l","e","d",":"," ","t","i","m","e","o","u","t">>
    /\ all_processes[3].status_name = <<"P","r","o","c","e","s","s","i","n","g">>

\* C18: the summary of a report, in the HTML body and in the text body,
\* shows as Total the number of jobs that were classified, jobs of the
\* "other" bucket included, and as Finished, Failed and Running the sizes
\* of these buckets; for the jobs "Finished",
\* "Failed: timeout", "Processing" the buckets are [job1], [job2], [job3], []
\* and the numbers 3, 1, 1, 1.
C18_SummaryCounts ==
    report # NoReport =>
        /\ LET total    == Len(all_processes)
               finished == Len(categorized.finished)
               failed   == Len(categorized.failed)
               running  == Len(categorized.running)
               row      == SummaryRow(total, finished, failed, running)
               lines    == SummaryLines(total, finished, failed, running)
               html     == report.html_body
               text     == report.text_body
           IN  Contains(row, html) /\ Contains(lines, text)
        /\ ExampleJobs =>
              /\ categorized.finished = <<all_processes[1]>>
              /\ categorized.failed = <<all_processes[2]>>
              /\ categorized.running = <<all_processes[3]>>
              /\ categorized.other = <<>>
              /\ Contains(SummaryRow(3, 1, 1, 1), report.html_body)
              /\ Contains(SummaryLines(3, 1, 1, 1), report.text_body)

\* the report of the three jobs of the example
C18_Witness ==
    /\ pc = "returned"
    /\ ExampleJobs
    /\ Len(db_rows) = 3
    /\ Contains(SummaryRow(3, 1, 1, 1), report.html_body)

-----------------------------------------------------------------------------
(* Claims about a log file that cannot be read *)

Unreadable == { f \in logs_dir : f.fails /\ f.lines = <<>> }

\* the readable files of the run's directory with a line naming the job
\* (every file of that directory is of the day and in the window of the jobs)
ReadableHolding(uuid) ==
    { f \in logs_dir \ Unreadable : \E i \in 1..Len(f.lines) : Contains(uuid, f.lines[i]) }

\* C20: with an unreadable file first among the candidates, every failed job
\* still gets its result: the job named in a later readable file has that
\* file (the first such file) as its log, the job named in no readable file
\* has "Log file not found", and the read error ends neither the search for
\* the job nor the loop over the failed jobs.
C20_ReadErrorSkipsFile ==
    (logs_dir_ok /\ FailedStepDone /\ "save" \notin faults) =>
        /\ Unreadable # {}
        /\ DOMAIN failed_logs =
              { categorized.failed[i].process_uuid : i \in 1..Len(categorized.failed) }
        /\ \A i \in 1..Len(categorized.failed) :
              LET uuid == categorized.failed[i].process_uuid
                  hold == ReadableHolding(uuid)
              IN  IF hold = {}
                  THEN /\ ~failed_logs[uuid].found
                       /\ failed_logs[uuid].summary = LogFileNotFound
                  ELSE /\ failed_logs[uuid].found
                       /\ \E f \in hold :
                             /\ failed_logs[uuid].log_file = f.name
                             /\ \A g \in hold \ {f} : StrLess(f.name, g.name)
                             /\ \E u \in Unreadable : StrLess(u.name, f.name)

\* failed jobs u1, u2 and u3 of one run: the logs of u1 and u2 are found in
\* the files after the unreadable one, u3 has none
C20_Witness ==
    /\ pc = "returned"
    /\ logs_dir_ok
    /\ Len(categorized.failed) = 3
    /\ failed_logs[UuidOf(1)].log_file = NameT03
    /\ failed_logs[UuidOf(2)].log_file = NameT12
    /\ ~failed_logs[UuidOf(3)].found

-----------------------------------------------------------------------------
(* Claims about the results of get_failed_process_logs *)

\* C24: every result with found = True has a log file, a saved path, at
\* least one line and a summary other than "No log data available", also
\* when the file cannot be read again after the scan that chose it; every
\* result with found = False has neither a log file nor a saved path.
C24_FoundIsConsistent ==
    \A uuid \in DOMAIN failed_logs :
        IF failed_logs[uuid].found
        THEN /\ failed_logs[uuid].log_file # None
             /\ failed_logs[uuid].saved_path # None
             /\ failed_logs[uuid].line_count >= 1
             /\ failed_logs[uuid].summary #
                    <<"N","o"," ","l","o","g"," ","d","a","t","a"," ",
                      "a","v","a","i","l","a","b","l","e">>
        ELSE /\ failed_logs[uuid].log_file = None
             /\ failed_logs[uuid].saved_path = None

-----------------------------------------------------------------------------
(* Claims about finished jobs without a tenant key *)

\* the row carries a tenant key: api_key is neither None nor the empty string
HasKey(job) == job.api_key # None /\ job.api_key # <<>>

\* the places in the list of the finished jobs whose job has a tenant key
KeyedPlaces ==
    LET WithKey(i) == HasKey(categorized.finished[i])
    IN  SelectSeq([i \in 1..Len(categorized.finished) |-> i], WithKey)

\* C21: the storage is asked only about finished jobs with a tenant key, in
\* the order of the list and with the key and id of the job, so no job is
\* asked about twice and no job without a key is asked about at all; the
\* loop stops short of a job with a key only behind a request that raised; once
\* the step has returned, every job with a key was asked about exactly once
\* and every job without a key (None or empty) has an entry with
\* api_key = None and video_link = None.
C21_LookupOnlyWithKey ==
    LET finished == categorized.finished
        keyed    == KeyedPlaces
    IN  /\ Len(lookups) <= Len(keyed)
        /\ \A k \in 1..Len(lookups) :
              /\ lookups[k].process_uuid = finished[keyed[k]].process_uuid
              /\ lookups[k].api_key = finished[keyed[k]].api_key
        /\ Len(lookups) < Len(keyed) =>
              \/ pc \in {"failed", "finished"}
              \/ "save" \in faults
              \/ Len(lookups) > 0 /\ lookups[Len(lookups)].response = RequestFailed
        /\ FinishedStepDone =>
              /\ Len(lookups) = Len(keyed)
              /\ \A i \in 1..Len(finished) :
                    /\ finished[i].process_uuid \in DOMAIN finished_data
                    /\ finished_data[finished[i].process_uuid].process = finished[i]
                    /\ ~HasKey(finished[i]) =>
                          /\ finished_data[finished[i].process_uuid].api_key = None
                          /\ finished_data[finished[i].process_uuid].video_link = None
                    /\ HasKey(finished[i]) =>
                          finished_data[finished[i].process_uuid].api_key = finished[i].api_key

\* a reported run with a finished job whose key is None, one whose key is
\* empty and one with a key, the only one looked up
C21_Witness ==
    /\ pc = "returned"
    /\ Len(categorized.finished) = 3
    /\ categorized.finished[1].api_key = None
    /\ categorized.finished[2].api_key = <<>>
    /\ HasKey(categorized.finished[3])
    /\ Len(lookups) = 1
    /\ lookups[1].process_uuid = categorized.finished[3].process_uuid
    /\ finished_data[categorized.finished[2].process_uuid].api_key = None
    /\ finished_data[categorized.finished[3].process_uuid].video_link # None

-----------------------------------------------------------------------------
(* Claims about the database connection *)

\* C25: a connection that was established is open until the finally clause
\* of run() and closed when run() has returned or raised, whichever step
\* failed; it changes only by being established in initialize() and by being
\* closed in the finally clause, so it is closed once; when connecting
\* failed there is no connection and cleanup() leaves it at that.
C25_ConnectionClosedOnce ==
    /\ [](pc \in {"returned", "raised"} =>
             db = IF "connect" \in faults THEN "none" ELSE "closed")
    /\ [](pc \in {"fetch", "failed", "finished", "report", "finally"} =>
             db = IF "connect" \in faults THEN "none" ELSE "open")
    /\ [][db' # db =>
             \/ pc = "initialize" /\ db = "none" /\ db' = "open"
             \/ pc = "finally" /\ db = "open" /\ db' = "closed" /\ pc' # "finally"]_vars

\* the connection was established, the authentication of a Graph client
\* failed in initialize(), and run() has raised with the connection closed
C25_Witness ==
    /\ pc = "raised"
    /\ error = "RuntimeError"
    /\ "authenticate" \in faults
    /\ db = "closed"

-----------------------------------------------------------------------------
(* email_report.py: the mail client.  Specification of the mail path of a    *)
(* run alone: NOTIFICATION_EMAIL as read by __init__ of the orchestrator,    *)
(* _authenticate on construction of the client, then                         *)
(* generate_and_send_report.  Under Spec the address is not followed.        *)

AddrOps == <<"ops@example.com">>

AddrSender == <<"sender@example.com">>

AddrOther == <<"other@example.com">>

\* os.getenv('NOTIFICATION_EMAIL')
NotificationPool == {None, AddrOps}

\* app.get_accounts() on the deserialized token cache
AccountsPool ==
    { <<>>,
      <<[username |-> AddrSender]>>,
      <<[username |-> AddrSender], [username |-> AddrOther]>> }

\* how acquire_token_silent answers for a cached account: a token, None, or
\* a dict describing an error
SilentOutcomes == {"token", "none", "error"}

\* how the device flow ends: a token, no user_code in the flow, or a result
\* without access_token
DeviceOutcomes == {"token", "no_user_code", "no_access_token"}

\* the jobs of a run that reaches the send step
SendRows == { rows \in RowLists : Len(rows) <= 1 /\ ~categorize_processes(rows).raised }

\* the payload send_report posts, with the answer of the mail service;
\* recipient_email defaults to self.user_email
Payload(rep, recipient_email, sender, accepted) ==
    [subject |-> rep.subject,
     content |-> rep.html_body,
     address |-> IF recipient_email = None THEN sender ELSE recipient_email,
     accepted |-> accepted]

InitSend ==
    /\ pc = "authenticate"
    /\ notification_email \in NotificationPool
    /\ accounts \in AccountsPool
    /\ user_email = None
    /\ token = "none"
    /\ \E rows \in SendRows :
         LET cat == categorize_processes(rows)
             responses == [i \in 1..Len(cat.finished) |->
                              IF NeedsLookup(cat.finished[i]) THEN ListingWithVideo
                              ELSE NoResponse]
         IN  /\ db_rows = rows
             /\ all_processes = rows
             /\ categorized = cat
             /\ failed_logs = process_failed_processes(FALSE, {}, cat.failed, {})
             /\ finished_data = process_finished_processes(cat.finished, responses)
             /\ lookups = LookupsOf(cat.finished, responses)
    /\ FindIdle
    /\ SumIdle
    /\ logs_dir_ok = FALSE /\ skip_apikeys = {} /\ db = "open" /\ log_retriever = FALSE
    /\ report = NoReport /\ sent = <<>> /\ error = "none" /\ faults = {}

\* EmailReportGenerator._authenticate: the first cached account gives
\* user_email and is tried silently; without a token the device flow runs
Authenticate ==
    /\ pc = "authenticate"
    /\ user_email' = IF accounts # <<>> THEN accounts[1].username ELSE user_email
    /\ \E silent \in SilentOutcomes, device \in DeviceOutcomes :
         LET got == IF accounts # <<>> /\ silent # "none"
                    THEN (IF silent = "token" THEN "silent" ELSE "none")
                    ELSE (IF device = "token" THEN "device" ELSE "none")
         IN  /\ token' = got
             /\ IF got = "none"
                THEN /\ error' = "RuntimeError"
                     /\ faults' = faults \cup {"authenticate"}
                     /\ pc' = "raising"
                ELSE /\ pc' = "send"
                     /\ UNCHANGED <<error, faults>>
    /\ UNCHANGED <<catVars, findVars, sumVars, db_rows, logs_dir_ok, skip_apikeys, db,
                   log_retriever, failed_logs, finished_data, lookups, report, sent,
                   notification_email, accounts>>

\* generate_and_send_report: generate_report, then send_report with
\* recipient_email = self.notification_email
SendReport ==
    /\ pc = "send"
    /\ report' = generate_report(categorized, failed_logs, finished_data, Now)
    /\ \E accepted \in BOOLEAN :
         /\ sent' = Append(sent, Payload(report', notification_email, user_email, accepted))
         /\ error' = IF accepted THEN error ELSE "HTTPError"
         /\ faults' = IF accepted THEN faults ELSE faults \cup {"send"}
         /\ pc' = IF accepted THEN "posted" ELSE "raising"
    /\ UNCHANGED <<catVars, findVars, sumVars, db_rows, logs_dir_ok, skip_apikeys, db,
                   log_retriever, failed_logs, finished_data, lookups, mailVars>>

NextSend ==
    \/ Authenticate
    \/ SendReport

SpecSend == InitSend /\ [][NextSend]_vars

-----------------------------------------------------------------------------
(* Claims about the recipient of the report *)

\* C22: every mail posted goes to the configured recipient, or, when none is
\* configured, to the address of the authenticated sender: the address of
\* the payload is never None, whether the token came from a cached account
\* or from a fresh device flow.
C22_RecipientDefined ==
    \A k \in 1..Len(sent) :
        /\ sent[k].address # None
        /\ notification_email # None => sent[k].address = notification_email

====
